---- MODULE Spec2Model ----
(***************************************************************************)
(* Model of the email verifier (backend/verifier.py) and of the batch      *)
(* driver that runs it over an uploaded address list (backend/jobs.py,     *)
(* backend/database.py).                                                    *)
(*                                                                          *)
(* Strings are sequences of one-character strings, so that the regex, the  *)
(* split at "@", lower(), rstrip(".") and sorted() are computed and not    *)
(* assumed.  A reason text built by an f-string is the sequence of its     *)
(* parts.                                                                   *)
(***************************************************************************)
EXTENDS Integers, Sequences, FiniteSets, TLC

\* ------------------------------------------------------------------------
\* Bounds of the model
\* ------------------------------------------------------------------------
\* Longest address list over the addresses of BatchAddresses.
MaxBatch == 3
\* Most transient failures (of a DNS query, of an SMTP session, of a step of
\* verify) in one session.
MaxTransient == 1
\* Most direct calls of is_catch_all in one session.
MaxCalls == 2
\* Window of process_csv.  The program uses 50; the model scales it down so
\* that lists of a few addresses span several windows.
BATCH_SIZE == 2

\* ------------------------------------------------------------------------
\* Characters
\* ------------------------------------------------------------------------
\* The characters the model uses, in code point order.
AsciiOrder ==
    <<"\n"," ","%","+","-",".","0","1","2","3","4","5","6","7","8","9","@",
      "A","B","C","D","E","F","G","H","I","J","K","L","M","N","O","P","Q",
      "R","S","T","U","V","W","X","Y","Z","_",
      "a","b","c","d","e","f","g","h","i","j","k","l","m","n","o","p","q",
      "r","s","t","u","v","w","x","y","z">>

\* ord(c), as the rank of c among the characters of the model.
OrdTable ==
    [c \in {AsciiOrder[n] : n \in 1..Len(AsciiOrder)} |->
        CHOOSE n \in 1..Len(AsciiOrder) : AsciiOrder[n] = c]
Ord(c) == OrdTable[c]

\* The characters from lo to hi.
CharRange(lo, hi) ==
    {AsciiOrder[n] : n \in {m \in 1..Len(AsciiOrder) : m >= Ord(lo) /\ m <= Ord(hi)}}

Digits == CharRange("0", "9")
UpperCase == CharRange("A", "Z")
LowerCase == CharRange("a", "z")

IsUpper(c) == c \in UpperCase
IsAlpha(c) == c \in UpperCase \cup LowerCase

\* str.lower() on one character and on a string.
LowerTable == [c \in UpperCase |-> AsciiOrder[Ord(c) - Ord("A") + Ord("a")]]
LowerChar(c) == IF IsUpper(c) THEN LowerTable[c] ELSE c
Lower(s) == [n \in 1..Len(s) |-> LowerChar(s[n])]

\* The two character classes of the syntax regex: [a-zA-Z0-9._%+-] and
\* [a-zA-Z0-9.-].
LocalChars == LowerCase \cup UpperCase \cup Digits \cup {".", "_", "%", "+", "-"}
DomainChars == LowerCase \cup UpperCase \cup Digits \cup {".", "-"}
LocalClass(c) == c \in LocalChars
DomainClass(c) == c \in DomainChars

\* ------------------------------------------------------------------------
\* Program constants
\* ------------------------------------------------------------------------
DISPOSABLE_DOMAINS ==
    { <<"m","a","i","l","i","n","a","t","o","r",".","c","o","m">>,
      <<"y","o","p","m","a","i","l",".","c","o","m">>,
      <<"t","e","m","p","-","m","a","i","l",".","o","r","g">>,
      <<"g","u","e","r","r","i","l","l","a","m","a","i","l",".","c","o","m">>,
      <<"1","0","m","i","n","u","t","e","m","a","i","l",".","c","o","m">>,
      <<"t","h","r","o","w","a","w","a","y","m","a","i","l",".","c","o","m">>,
      <<"f","a","k","e","i","n","b","o","x",".","c","o","m">>,
      <<"g","e","t","a","i","r","m","a","i","l",".","c","o","m">> }

ROLE_PREFIXES ==
    { <<"a","d","m","i","n">>,
      <<"s","u","p","p","o","r","t">>,
      <<"i","n","f","o">>,
      <<"c","o","n","t","a","c","t">>,
      <<"s","a","l","e","s">>,
      <<"m","a","r","k","e","t","i","n","g">>,
      <<"b","i","l","l","i","n","g">>,
      <<"a","b","u","s","e">>,
      <<"p","o","s","t","m","a","s","t","e","r">>,
      <<"w","e","b","m","a","s","t","e","r">>,
      <<"j","o","b","s">>,
      <<"h","r">>,
      <<"n","o","r","e","p","l","y">>,
      <<"n","o","-","r","e","p","l","y">> }

\* ------------------------------------------------------------------------
\* Pure functions of EmailVerifier
\* ------------------------------------------------------------------------
\* The positions at which "$" can match: the end of the string, and just
\* before a newline that ends it.
RegexEnds(e) ==
    {Len(e)} \cup (IF Len(e) > 0 /\ e[Len(e)] = "\n" THEN {Len(e) - 1} ELSE {})

\* re.match(r'^[a-zA-Z0-9._%+-]+@[a-zA-Z0-9.-]+\.[a-zA-Z]{2,}$', email)
check_syntax(e) ==
    \E end \in RegexEnds(e) : \E at \in 2..end : \E dot \in (at + 2)..(end - 2) :
        /\ e[at] = "@"
        /\ e[dot] = "."
        /\ \A i \in 1..(at - 1) : LocalClass(e[i])
        /\ \A i \in (at + 1)..(dot - 1) : DomainClass(e[i])
        /\ \A i \in (dot + 1)..end : IsAlpha(e[i])

\* The positions of "@" in a string.
AtPositions(e) == {i \in 1..Len(e) : e[i] = "@"}

\* Smallest element of a non-empty set of integers.
MinOf(S) == CHOOSE x \in S : \A y \in S : x <= y

\* email.split('@')[0]: the text before the first "@" (all of it if none).
SplitLocal(e) ==
    IF AtPositions(e) = {} THEN e
    ELSE SubSeq(e, 1, MinOf(AtPositions(e)) - 1)

\* email.split('@') has a second element iff the string holds an "@".
SplitHasDomain(e) == AtPositions(e) # {}

\* email.split('@')[1]: the text between the first "@" and the next one (or
\* the end of the string).
SplitDomain(e) ==
    LET first == MinOf(AtPositions(e))
        rest  == {i \in AtPositions(e) : i > first}
        stop  == IF rest = {} THEN Len(e) ELSE MinOf(rest) - 1
    IN  SubSeq(e, first + 1, stop)

is_disposable(domain) == Lower(domain) \in DISPOSABLE_DOMAINS

is_role_account(email) == Lower(SplitLocal(email)) \in ROLE_PREFIXES

\* str.rstrip('.')
RECURSIVE RStripDot(_)
RStripDot(s) ==
    IF Len(s) > 0 /\ s[Len(s)] = "." THEN RStripDot(SubSeq(s, 1, Len(s) - 1)) ELSE s

\* Python's order on strings: by code point, a proper prefix first.
RECURSIVE StrLess(_, _)
StrLess(a, b) ==
    IF Len(b) = 0 THEN FALSE
    ELSE IF Len(a) = 0 THEN TRUE
    ELSE IF a[1] = b[1] THEN StrLess(Tail(a), Tail(b))
    ELSE Ord(a[1]) < Ord(b[1])

\* Insert a string into a sorted list, after its equals.
RECURSIVE InsertSorted(_, _)
InsertSorted(x, l) ==
    IF Len(l) = 0 THEN <<x>>
    ELSE IF StrLess(x, l[1]) THEN <<x>> \o l
    ELSE <<l[1]>> \o InsertSorted(x, Tail(l))

\* sorted(list of strings)
RECURSIVE sorted(_)
sorted(l) == IF Len(l) = 0 THEN <<>> ELSE InsertSorted(l[1], sorted(Tail(l)))

\* ------------------------------------------------------------------------
\* The network the verifier talks to
\* ------------------------------------------------------------------------
\* The DNS zones and the mail servers are fixed; what a single query or
\* probe brings back is their true answer or a transient failure.
D_ok  == <<"o","k",".","i","o">>
D_blk == <<"b","l","k",".","i","o">>
D_all == <<"a","l","l",".","i","o">>
D_web == <<"w","e","b",".","i","o">>
D_yop == <<"y","o","p","m","a","i","l",".","c","o","m">>

H_a_ok == <<"a",".","o","k",".","i","o">>
H_b_ok == <<"b",".","o","k",".","i","o">>
H_blk  == <<"m","x",".","b","l","k",".","i","o">>
H_all  == <<"m","x",".","a","l","l",".","i","o">>

\* The MX records of a domain, as (preference, exchange) with the trailing
\* dot of an absolute name.  ok.io prefers b.ok.io over a.ok.io.
MXRecords(d) ==
    CASE d = D_ok  -> { [pref |-> 10, exchange |-> H_b_ok \o <<".">>],
                        [pref |-> 20, exchange |-> H_a_ok \o <<".">>] }
      [] d = D_blk -> { [pref |-> 10, exchange |-> H_blk \o <<".">>] }
      [] d = D_all -> { [pref |-> 10, exchange |-> H_all \o <<".">>] }
      [] d = D_yop -> { [pref |-> 10, exchange |-> H_all \o <<".">>] }
      [] OTHER     -> {}

\* Whether the domain has an A record, and whether it exists at all.
HasA(d) == d \in {D_ok, D_blk, D_all, D_web, D_yop}
DomainExists(d) == HasA(d)

\* blocked: port 25 is refused.  catchall: RCPT TO is accepted for every
\* local-part.  strict: RCPT TO is accepted for the mailboxes that exist.
ServerKind(h) ==
    CASE h = H_blk -> "blocked"
      [] h = H_all -> "catchall"
      [] OTHER     -> "strict"

A_bob_ok    == <<"b","o","b","@","o","k",".","i","o">>
A_x_ok      == <<"x","@","o","k",".","i","o">>
A_hr_ok     == <<"h","r","@","o","k",".","i","o">>
A_jobs_ok   == <<"j","o","b","s","@","o","k",".","i","o">>
A_x_blk     == <<"x","@","b","l","k",".","i","o">>
A_admin_blk == <<"a","d","m","i","n","@","b","l","k",".","i","o">>
A_y_all     == <<"y","@","a","l","l",".","i","o">>
A_info_nx   == <<"i","n","f","o","@","n","x",".","i","o">>
A_x_web     == <<"x","@","w","e","b",".","i","o">>
A_x_yop     == <<"x","@","y","o","p","m","a","i","l",".","c","o","m">>
A_x_mailin  == <<"x","@","m","a","i","l","i","n","a","t","o","r",".","c","o","m">>
A_hr_Yop    == <<"h","r","@","Y","o","p","M","a","i","l",".","c","o","m">>
A_nodomain  == <<"a","@","b">>
A_noat      == <<"b","o","b",".","o","k",".","i","o">>
A_space     == <<"a"," ","b","@","o","k",".","i","o">>
A_newline   == <<"x","@","o","k",".","i","o","\n">>

Mailboxes == {A_bob_ok, A_hr_ok}

\* The true answer to an MX query and to an A query.
TrueMx(d) ==
    IF MXRecords(d) # {} THEN "records"
    ELSE IF DomainExists(d) THEN "NoAnswer" ELSE "NXDOMAIN"

TrueA(d) ==
    IF HasA(d) THEN "records"
    ELSE IF DomainExists(d) THEN "NoAnswer" ELSE "NXDOMAIN"

\* The transient failures of a query: of the configured resolver's MX query
\* (all its nameservers failing, or a timeout), of the system resolver's MX
\* query and of the A query.
TransientDns == {"NoNameservers", "Timeout"}
TransientSysDns == {"Timeout"}
TransientA == {"Timeout"}

\* A set of records in the order of some answer.
RECURSIVE AnswerOrder(_)
AnswerOrder(S) ==
    IF S = {} THEN <<>>
    ELSE LET r == CHOOSE x \in S : TRUE IN <<r>> \o AnswerOrder(S \ {r})

\* The ways one SMTP session can end.  stage: the call of check_smtp that
\* ended it.  kind "reply": rcpt returned (code, message) and quit succeeded;
\* "response_exc": an SMTPResponseException carrying the code was raised;
\* "blocked": SMTPConnectError, SMTPTimeoutError, TimeoutError or
\* ConnectionRefusedError; "other_exc": any other exception.
Reply(code)       == [stage |-> "rcpt", kind |-> "reply", code |-> code]
Refused(st, code) == [stage |-> st, kind |-> "response_exc", code |-> code]
Blocked(st)       == [stage |-> st, kind |-> "blocked", code |-> ""]
OtherExc(st)      == [stage |-> st, kind |-> "other_exc", code |-> ""]

TransientSmtp ==
    { Blocked("rcpt"), OtherExc("ehlo"), OtherExc("quit"),
      Reply("451"), Refused("rcpt", "451") }

\* How a session with the host ends when nothing fails on the way.
TrueSmtp(host, rcpt) ==
    CASE ServerKind(host) = "blocked"  -> { Blocked("connect") }
      [] ServerKind(host) = "catchall" -> { Reply("250") }
      [] OTHER ->
            IF rcpt \in Mailboxes
                THEN { Reply("250") }
                ELSE { Reply("550"), Refused("rcpt", "550") }

\* ------------------------------------------------------------------------
\* check_smtp, and the steps of verify between two suspensions
\* ------------------------------------------------------------------------
\* The result check_smtp returns for the way its SMTP session ended.
check_smtp(out) ==
    CASE out.kind = "reply" ->
            IF out.code = "250"
                THEN [status |-> "VALID", reason |-> <<"SMTP Response 250 OK">>]
            ELSE IF out.code = "550"
                THEN [status |-> "INVALID", reason |-> <<"User Not Found (550)">>]
            ELSE [status |-> "UNKNOWN",
                  reason |-> <<"SMTP Response ", out.code, ": ", "msg">>]
      [] out.kind = "response_exc" ->
            [status |-> "UNKNOWN", reason |-> <<"SMTP Error ", out.code, ": ", "msg">>]
      [] out.kind = "blocked" ->
            [status |-> "RISKY", reason |-> <<"SMTP Connection Blocked">>]
      [] OTHER ->
            [status |-> "UNKNOWN", reason |-> <<"SMTP Exception: ", "err">>]

\* The result dict verify starts with.
InitialResult(email) ==
    [email |-> email, status |-> "UNKNOWN", reason |-> <<>>,
     smtp_valid |-> FALSE, mx_found |-> FALSE, catch_all |-> FALSE]

\* SystemError, but the handler reuses the result dict of the call.
SystemErrorReusesResult(result, detail) ==
    [result EXCEPT !.status = "UNKNOWN", !.reason = <<"System Error: ", detail>>]

\* The result dict verify's exception handler builds.
SystemError(result, detail) ==
    [email |-> result.email, status |-> "UNKNOWN",
     reason |-> <<"System Error: ", detail>>,
     smtp_valid |-> FALSE, mx_found |-> FALSE, catch_all |-> FALSE]

\* No SMTP session yet.
NoOutcome == [stage |-> "", kind |-> "none", code |-> ""]

\* What check_smtp can leave of the connection of a session: it calls quit
\* on the path without exception and closes nothing in its except clauses.
\* none: no connection was opened; closed: the session was ended; open: the
\* connection was opened and is open when check_smtp returns.  After a reply
\* raised as a response exception the session is still up; after a timeout
\* or another exception the client may have dropped the connection itself.
ConnAfter(out) ==
    CASE out.kind = "none"         -> {"none"}
      [] out.stage = "connect"     -> {"none"}
      [] out.kind = "reply"        -> {"closed"}
      [] out.kind = "response_exc" -> {"open"}
      [] OTHER                     -> {"open", "closed"}

NoSmtpResult == [status |-> "", reason |-> <<>>]

\* One call of verify.  pc: idle (not yet created), new (created by gather,
\* not yet run), mx_wait / a_wait / sys_wait (suspended in get_mx_records on
\* the configured resolver's MX query, its A query, the system resolver's MX
\* query), smtp_wait (suspended in check_smtp), done (returned).
\* dns, smtp: the queries and probes the call has issued; out: how the SMTP
\* session of its probe ended; wrote: how often it wrote a cache; raised: an
\* exception reached the handler of verify.
IdleTask(email) ==
    [pc |-> "idle", result |-> InitialResult(email), mx_server |-> <<>>,
     dns |-> <<>>, smtp |-> <<>>, out |-> NoOutcome, smtp_result |-> NoSmtpResult,
     wrote |-> 0, raised |-> FALSE]

Query(q, by) == [q |-> q, by |-> by, ans |-> "pending"]

\* The value get_mx_records returns: None, or a list of hosts.
MxNone == [none |-> TRUE, hosts |-> <<>>]
MxList(hosts) == [none |-> FALSE, hosts |-> hosts]

\* verify returns result with this status and reason.
Return(t, status, reason) ==
    [t EXCEPT !.pc = "done", !.result.status = status, !.result.reason = reason]

\* AfterMx, but an empty host list returns the result as it stands.
AfterMxKeepsVerdict(t, mx) ==
    IF mx.none THEN Return(t, "UNKNOWN", <<"DNS Lookup Failed">>)
    ELSE IF Len(mx.hosts) = 0
        THEN IF t.result.status = "RISKY"
                THEN [t EXCEPT !.pc = "done"]
                ELSE Return(t, "INVALID", <<"No MX Records">>)
    ELSE [t EXCEPT !.result.mx_found = TRUE,
                   !.mx_server = mx.hosts[1],
                   !.smtp = Append(@, [to |-> t.result.email, host |-> mx.hosts[1]]),
                   !.pc = "smtp_wait"]

\* AfterMx, but mx_found is set as soon as get_mx_records returned a list.
AfterMxFoundEarly(t, mx) ==
    IF mx.none THEN Return(t, "UNKNOWN", <<"DNS Lookup Failed">>)
    ELSE IF Len(mx.hosts) = 0
        THEN Return([t EXCEPT !.result.mx_found = TRUE], "INVALID", <<"No MX Records">>)
    ELSE [t EXCEPT !.result.mx_found = TRUE,
                   !.mx_server = mx.hosts[1],
                   !.smtp = Append(@, [to |-> t.result.email, host |-> mx.hosts[1]]),
                   !.pc = "smtp_wait"]

\* AfterMx, but None leaves the verdict of the role-based check in place.
AfterMxNoneKeepsRole(t, mx) ==
    IF mx.none
        THEN IF t.result.status = "RISKY"
                THEN [t EXCEPT !.pc = "done"]
                ELSE Return(t, "UNKNOWN", <<"DNS Lookup Failed">>)
    ELSE IF Len(mx.hosts) = 0 THEN Return(t, "INVALID", <<"No MX Records">>)
    ELSE [t EXCEPT !.result.mx_found = TRUE,
                   !.mx_server = mx.hosts[1],
                   !.smtp = Append(@, [to |-> t.result.email, host |-> mx.hosts[1]]),
                   !.pc = "smtp_wait"]

\* verify from the return of get_mx_records to the suspension in check_smtp.
AfterMx(t, mx) ==
    IF mx.none THEN Return(t, "UNKNOWN", <<"DNS Lookup Failed">>)
    ELSE IF Len(mx.hosts) = 0 THEN Return(t, "INVALID", <<"No MX Records">>)
    ELSE [t EXCEPT !.result.mx_found = TRUE,
                   !.mx_server = mx.hosts[1],
                   !.smtp = Append(@, [to |-> t.result.email, host |-> mx.hosts[1]]),
                   !.pc = "smtp_wait"]

\* The provisional verdict of the role-based check.
RoleCheck(t) ==
    IF is_role_account(t.result.email)
        THEN [t EXCEPT !.result.status = "RISKY",
                       !.result.reason = <<"Role-Based Account">>]
        ELSE t

\* VerifyFirst, but a failed syntax check does not end the call.
VerifyFirstNoSyntaxReturn(t, cache) ==
    LET email == t.result.email IN
    IF ~SplitHasDomain(email) THEN Return(t, "INVALID", <<"Invalid Format">>)
    ELSE LET domain == Lower(SplitDomain(email)) IN
         IF is_disposable(domain) THEN Return(t, "INVALID", <<"Disposable Domain">>)
         ELSE IF domain \in DOMAIN cache
             THEN AfterMx(RoleCheck(t), MxList(cache[domain]))
             ELSE [RoleCheck(t) EXCEPT !.dns = Append(@, Query("MX", "configured")),
                                       !.pc = "mx_wait"]

\* VerifyFirst, but the role-based check comes before the disposable check
\* and ends the call.
VerifyFirstRoleFirst(t, cache) ==
    LET email == t.result.email IN
    IF ~check_syntax(email) THEN Return(t, "INVALID", <<"Invalid Syntax">>)
    ELSE IF ~SplitHasDomain(email) THEN Return(t, "INVALID", <<"Invalid Format">>)
    ELSE IF is_role_account(email) THEN Return(t, "RISKY", <<"Role-Based Account">>)
    ELSE LET domain == Lower(SplitDomain(email)) IN
         IF is_disposable(domain) THEN Return(t, "INVALID", <<"Disposable Domain">>)
         ELSE IF domain \in DOMAIN cache
             THEN AfterMx(t, MxList(cache[domain]))
             ELSE [t EXCEPT !.dns = Append(@, Query("MX", "configured")),
                            !.pc = "mx_wait"]

\* VerifyFirst, but get_mx_records does not look into the cache.
VerifyFirstNoCache(t, cache) ==
    LET email == t.result.email IN
    IF ~check_syntax(email) THEN Return(t, "INVALID", <<"Invalid Syntax">>)
    ELSE IF ~SplitHasDomain(email) THEN Return(t, "INVALID", <<"Invalid Format">>)
    ELSE LET domain == Lower(SplitDomain(email)) IN
         IF is_disposable(domain) THEN Return(t, "INVALID", <<"Disposable Domain">>)
         ELSE [RoleCheck(t) EXCEPT !.dns = Append(@, Query("MX", "configured")),
                                   !.pc = "mx_wait"]

\* verify from its start to its first suspension (or its return), reading
\* the MX cache.
VerifyFirst(t, cache) ==
    LET email == t.result.email IN
    IF ~check_syntax(email) THEN Return(t, "INVALID", <<"Invalid Syntax">>)
    ELSE IF ~SplitHasDomain(email) THEN Return(t, "INVALID", <<"Invalid Format">>)
    ELSE LET domain == Lower(SplitDomain(email)) IN
         IF is_disposable(domain) THEN Return(t, "INVALID", <<"Disposable Domain">>)
         ELSE IF domain \in DOMAIN cache
             THEN AfterMx(RoleCheck(t), MxList(cache[domain]))
             ELSE [RoleCheck(t) EXCEPT !.dns = Append(@, Query("MX", "configured")),
                                       !.pc = "mx_wait"]

\* FinalDecision, but a blocked probe is upgraded whatever the role check said.
FinalDecisionAlwaysUpgrades(result, smtp_result) ==
    CASE smtp_result.status = "VALID" ->
            [result EXCEPT !.status = "VALID", !.reason = <<"SMTP Valid">>,
                           !.smtp_valid = TRUE]
      [] smtp_result.status = "INVALID" ->
            [result EXCEPT !.status = "INVALID", !.reason = smtp_result.reason]
      [] smtp_result.status = "RISKY" ->
            [result EXCEPT !.status = "VALID",
                           !.reason = <<"Domain Valid (SMTP Blocked)">>,
                           !.smtp_valid = TRUE]
      [] OTHER ->
            [result EXCEPT !.status = "UNKNOWN", !.reason = smtp_result.reason]

\* FinalDecision, but a blocked probe is passed on as the probe reported it.
FinalDecisionNeverUpgrades(result, smtp_result) ==
    CASE smtp_result.status = "VALID" ->
            [result EXCEPT !.status = "VALID", !.reason = <<"SMTP Valid">>,
                           !.smtp_valid = TRUE]
      [] smtp_result.status = "INVALID" ->
            [result EXCEPT !.status = "INVALID", !.reason = smtp_result.reason]
      [] smtp_result.status = "RISKY" ->
            IF result.status = "RISKY" /\ result.reason = <<"Role-Based Account">>
                THEN result
                ELSE [result EXCEPT !.status = "RISKY", !.reason = smtp_result.reason]
      [] OTHER ->
            [result EXCEPT !.status = "UNKNOWN", !.reason = smtp_result.reason]

\* FinalDecision, but an accepted probe also sets catch_all.
FinalDecisionFlagsCatchAll(result, smtp_result) ==
    CASE smtp_result.status = "VALID" ->
            [result EXCEPT !.status = "VALID", !.reason = <<"SMTP Valid">>,
                           !.smtp_valid = TRUE, !.catch_all = TRUE]
      [] smtp_result.status = "INVALID" ->
            [result EXCEPT !.status = "INVALID", !.reason = smtp_result.reason]
      [] smtp_result.status = "RISKY" ->
            IF result.status = "RISKY" /\ result.reason = <<"Role-Based Account">>
                THEN result
                ELSE [result EXCEPT !.status = "VALID",
                                    !.reason = <<"Domain Valid (SMTP Blocked)">>,
                                    !.smtp_valid = TRUE]
      [] OTHER ->
            [result EXCEPT !.status = "UNKNOWN", !.reason = smtp_result.reason]

\* FinalDecision, but the verdict of the role-based check stands whatever
\* the probe reported.
FinalDecisionRespectsRole(result, smtp_result) ==
    IF result.status = "RISKY" /\ result.reason = <<"Role-Based Account">>
        THEN result
    ELSE CASE smtp_result.status = "VALID" ->
            [result EXCEPT !.status = "VALID", !.reason = <<"SMTP Valid">>,
                           !.smtp_valid = TRUE]
      [] smtp_result.status = "INVALID" ->
            [result EXCEPT !.status = "INVALID", !.reason = smtp_result.reason]
      [] smtp_result.status = "RISKY" ->
            [result EXCEPT !.status = "VALID",
                           !.reason = <<"Domain Valid (SMTP Blocked)">>,
                           !.smtp_valid = TRUE]
      [] OTHER ->
            [result EXCEPT !.status = "UNKNOWN", !.reason = smtp_result.reason]

\* FinalDecision, but smtp_valid is set whenever the server answered the
\* probe, also when it refused the recipient.
FinalDecisionMarksAnswered(result, smtp_result) ==
    CASE smtp_result.status = "VALID" ->
            [result EXCEPT !.status = "VALID", !.reason = <<"SMTP Valid">>,
                           !.smtp_valid = TRUE]
      [] smtp_result.status = "INVALID" ->
            [result EXCEPT !.status = "INVALID", !.reason = smtp_result.reason,
                           !.smtp_valid = TRUE]
      [] smtp_result.status = "RISKY" ->
            IF result.status = "RISKY" /\ result.reason = <<"Role-Based Account">>
                THEN result
                ELSE [result EXCEPT !.status = "VALID",
                                    !.reason = <<"Domain Valid (SMTP Blocked)">>,
                                    !.smtp_valid = TRUE]
      [] OTHER ->
            [result EXCEPT !.status = "UNKNOWN", !.reason = smtp_result.reason]

\* The final decision logic of verify.
FinalDecision(result, smtp_result) ==
    CASE smtp_result.status = "VALID" ->
            [result EXCEPT !.status = "VALID", !.reason = <<"SMTP Valid">>,
                           !.smtp_valid = TRUE]
      [] smtp_result.status = "INVALID" ->
            [result EXCEPT !.status = "INVALID", !.reason = smtp_result.reason]
      [] smtp_result.status = "RISKY" ->
            IF result.status = "RISKY" /\ result.reason = <<"Role-Based Account">>
                THEN result
                ELSE [result EXCEPT !.status = "VALID",
                                    !.reason = <<"Domain Valid (SMTP Blocked)">>,
                                    !.smtp_valid = TRUE]
      [] OTHER ->
            [result EXCEPT !.status = "UNKNOWN", !.reason = smtp_result.reason]

\* The host list get_mx_records makes of an answer.
HostList(records) ==
    sorted([k \in 1..Cardinality(records) |-> RStripDot(AnswerOrder(records)[k].exchange)])

\* cache[domain] = value
CacheWrite(cache, domain, value) ==
    [d \in (DOMAIN cache) \cup {domain} |-> IF d = domain THEN value ELSE cache[d]]

\* SysFailure, but the failure is cached as an empty list.
SysFailureCachesEmpty(cache, domain) == CacheWrite(cache, domain, <<>>)

\* The cache after the system resolver's query failed too: get_mx_records
\* returns None and leaves the cache as it is.
SysFailure(cache, domain) == cache

\* The last query of the log takes its answer.
Answered(t, ans) == [t EXCEPT !.dns[Len(t.dns)].ans = ans]

\* The domain verify computes for an address that passed the syntax check.
DomainOf(email) == Lower(SplitDomain(email))

\* ------------------------------------------------------------------------
\* State
\* ------------------------------------------------------------------------
VARIABLES
    file,             \* the uploaded CSV: whether it can be read, and its addresses
    emails,           \* process_csv: the address list it read
    job,              \* the Job row: status, total_emails, processed_emails, log
    saved,            \* the Email rows, in the order save_email_result added them
    progress,         \* the values handed to update_job_progress, in order
    jpc,              \* process_csv: queued, reading, loop, gather, end
    i,                \* process_csv: the loop variable (offset of the window)
    task,             \* the verify calls, one per address of the list
    mx_cache,         \* EmailVerifier.mx_cache
    catch_all_cache,  \* EmailVerifier.catch_all_cache
    calls,            \* the direct calls of is_catch_all
    transients        \* the transient failures so far

vars ==
    <<file, emails, job, saved, progress, jpc, i, task, mx_cache, catch_all_cache,
      calls, transients>>

\* The Job row create_job adds.  log: the values the status column has
\* taken, in order.
create_job ==
    [status |-> "PENDING", total_emails |-> 0, processed_emails |-> 0,
     log |-> <<"PENDING">>]

\* update_job_status, but the status FAILED is not written.
UpdateJobStatusDropsFailed(j, status) ==
    IF status = "FAILED" THEN j
    ELSE [j EXCEPT !.status = status, !.log = Append(@, status)]

\* The Job row after update_job_status(job_id, status).
update_job_status(j, status) ==
    [j EXCEPT !.status = status, !.log = Append(@, status)]

\* The empty dict.
EmptyDict == [d \in {} |-> <<>>]

\* The lists of at most n elements of S.
ListsUpTo(S, n) == UNION {[1..k -> S] : k \in 0..n}

\* The files that can be uploaded: readable with an address list, without
\* an email column, unreadable, or not decodable when the column is read.
Files(S, n) ==
    {[kind |-> "ok", emails |-> l] : l \in ListsUpTo(S, n)}
    \cup {[kind |-> k, emails |-> <<>>] : k \in {"nocolumn", "unreadable", "undecodable"}}

\* The addresses that are uploaded alone, and those of the longer lists.
Addresses ==
    {A_bob_ok, A_x_ok, A_hr_ok, A_jobs_ok, A_x_blk, A_admin_blk, A_y_all, A_info_nx,
     A_x_web, A_hr_Yop, A_x_mailin, A_nodomain, A_space, A_newline}

BatchAddresses == {A_bob_ok, A_noat}

\* The files of one address.
SingleFiles == {[kind |-> "ok", emails |-> <<a>>] : a \in Addresses}

\* The state after upload_file: the file is stored, create_job has added the
\* job, process_csv is scheduled.
InitWith(F) ==
    /\ file \in F
    /\ emails = <<>>
    /\ job = create_job
    /\ saved = <<>>
    /\ progress = <<>>
    /\ jpc = "queued"
    /\ i = 0
    /\ task = <<>>
    /\ mx_cache = EmptyDict
    /\ catch_all_cache = EmptyDict
    /\ calls = <<>>
    /\ transients = 0

\* The list of four addresses of the specification's example: a disposable
\* domain, a role account at a domain that refuses port 25, an address at a
\* catch-all domain, and a string that is no address.
ExampleBatch == <<A_x_yop, A_admin_blk, A_y_all, A_noat>>

\* A list with two addresses of one domain without records in two windows.
RetryBatch == <<A_info_nx, A_noat, A_info_nx>>

\* The arguments of a direct call of is_catch_all: a domain and one of its
\* MX hosts.
CallArgs ==
    { [domain |-> D_all, host |-> H_all], [domain |-> D_ok, host |-> H_a_ok] }

\* A call of is_catch_all.  pc: idle (not yet started), probe_wait
\* (suspended in check_smtp), done (returned).  hit: it returned the cache
\* entry; probe: the probe it issued; out: how the session of the probe
\* ended; ret: the boolean it returned.
IdleCall(args) ==
    [pc |-> "idle", domain |-> args.domain, host |-> args.host, hit |-> FALSE,
     probe |-> <<>>, out |-> NoOutcome, ret |-> FALSE]

\* A session without upload, in which the caller of the verifier calls
\* is_catch_all, at most MaxCalls times.
InitDirect ==
    /\ file = [kind |-> "none", emails |-> <<>>]
    /\ emails = <<>>
    /\ job = create_job
    /\ saved = <<>>
    /\ progress = <<>>
    /\ jpc = "none"
    /\ i = 0
    /\ task = <<>>
    /\ mx_cache = EmptyDict
    /\ catch_all_cache = EmptyDict
    /\ calls \in {[n \in DOMAIN l |-> IdleCall(l[n])] :
                      l \in UNION {[1..m -> CallArgs] : m \in 1..MaxCalls}}
    /\ transients = 0

Init ==
    \/ InitWith(SingleFiles \cup Files(BatchAddresses, MaxBatch)
                \cup {[kind |-> "ok", emails |-> ExampleBatch],
                      [kind |-> "ok", emails |-> RetryBatch]})
    \/ InitDirect

\* ------------------------------------------------------------------------
\* process_csv
\* ------------------------------------------------------------------------
\* Processed, but without the min.
ProcessedNoMin(off, total) == off + BATCH_SIZE

\* min(i + BATCH_SIZE, total)
Processed(off, total) == IF off + BATCH_SIZE < total THEN off + BATCH_SIZE ELSE total

\* Window, but the slice runs to the end of the list.
WindowToEnd == {k \in 1..Len(emails) : k > i}

\* The indexes (from 1) of the slice emails[i : i + BATCH_SIZE].
Window == {k \in 1..Len(emails) : k > i /\ k <= i + BATCH_SIZE}

\* process_csv up to its first suspension: PROCESSING, then the header.
ProcessCsvStart ==
    /\ jpc = "queued"
    /\ IF file.kind \in {"nocolumn", "unreadable"}
          THEN /\ job' = update_job_status(update_job_status(job, "PROCESSING"), "FAILED")
               /\ jpc' = "end"
          ELSE /\ job' = update_job_status(job, "PROCESSING")
               /\ jpc' = "reading"
    /\ UNCHANGED <<file, emails, saved, progress, i, task, mx_cache, catch_all_cache, calls, transients>>

\* The column is read: the list and its length, or the failure of the job.
ReadCsv ==
    /\ jpc = "reading"
    /\ IF file.kind = "ok"
          THEN /\ emails' = file.emails
               /\ task' = [k \in 1..Len(file.emails) |-> IdleTask(file.emails[k])]
               /\ job' = [job EXCEPT !.total_emails = Len(file.emails)]
               /\ jpc' = "loop"
          ELSE /\ job' = update_job_status(job, "FAILED")
               /\ jpc' = "end"
               /\ UNCHANGED <<emails, task>>
    /\ UNCHANGED <<file, saved, progress, i, mx_cache, catch_all_cache, calls, transients>>

\* The loop starts a window: gather creates one task per address of it.
LaunchWindow ==
    /\ jpc = "loop"
    /\ i < Len(emails)
    /\ task' = [k \in DOMAIN task |->
                   IF k \in Window THEN [task[k] EXCEPT !.pc = "new"] ELSE task[k]]
    /\ jpc' = "gather"
    /\ UNCHANGED <<file, emails, job, saved, progress, i, mx_cache, catch_all_cache, calls, transients>>

\* Rows, but the results of the calls that raised are left out.
RECURSIVE RowsWithoutFaults(_)
RowsWithoutFaults(k) ==
    IF k \in Window
        THEN (IF task[k].raised THEN <<>> ELSE <<task[k].result>>) \o RowsWithoutFaults(k + 1)
        ELSE <<>>

\* The rows save_email_result adds for the results gather returned.
RECURSIVE Rows(_)
Rows(k) == IF k \in Window THEN <<task[k].result>> \o Rows(k + 1) ELSE <<>>

\* gather returned: the results are saved in order and the progress is
\* reported; the loop goes on.
GatherDone ==
    /\ jpc = "gather"
    /\ \A k \in Window : task[k].pc = "done"
    /\ saved' = saved \o Rows(i + 1)
    /\ progress' = Append(progress, Processed(i, Len(emails)))
    /\ job' = [job EXCEPT !.processed_emails = Processed(i, Len(emails))]
    /\ i' = i + BATCH_SIZE
    /\ jpc' = "loop"
    /\ UNCHANGED <<file, emails, task, mx_cache, catch_all_cache, calls, transients>>

\* The loop is over.
ProcessCsvComplete ==
    /\ jpc = "loop"
    /\ i >= Len(emails)
    /\ job' = update_job_status(job, "COMPLETED")
    /\ jpc' = "end"
    /\ UNCHANGED <<file, emails, saved, progress, i, task, mx_cache, catch_all_cache, calls, transients>>

\* ------------------------------------------------------------------------
\* verify
\* ------------------------------------------------------------------------
\* The event loop runs the tasks gather created in their order, each up to
\* its first suspension, before it resumes any of them.
CanStart(k) ==
    /\ jpc = "gather"
    /\ k \in Window
    /\ task[k].pc = "new"
    /\ \A j \in Window : j < k => task[j].pc # "new"

CanResume(k, at) ==
    /\ jpc = "gather"
    /\ k \in Window
    /\ task[k].pc = at
    /\ \A j \in Window : task[j].pc # "new"

\* The transient failures that can still happen, among those of T.
May(T) == IF transients < MaxTransient THEN T ELSE {}

\* The count of transient failures after an answer or an outcome x.
Count(x, T) == IF x \in T THEN transients + 1 ELSE transients

\* verify runs from its start to its first suspension.
VerifyStart(k) ==
    /\ CanStart(k)
    /\ task' = [task EXCEPT ![k] = VerifyFirst(task[k], mx_cache)]
    /\ UNCHANGED <<file, emails, job, saved, progress, jpc, i, mx_cache, catch_all_cache, calls,
                   transients>>

\* MxFailure, but every failure of the query is taken by the A fallback.
MxFailureAlwaysFallsBack(t, ans) ==
    [t EXCEPT !.dns = Append(@, Query("A", "configured")), !.pc = "a_wait"]

\* The except clause of get_mx_records that takes the failure of the
\* configured resolver's MX query: the A query of the fallback after no
\* answer, no such domain or no nameservers, and the MX query of a system
\* resolver after any other exception.
MxFailure(t, ans) ==
    IF ans \in {"NoAnswer", "NXDOMAIN", "NoNameservers"}
        THEN [t EXCEPT !.dns = Append(@, Query("A", "configured")), !.pc = "a_wait"]
        ELSE [t EXCEPT !.dns = Append(@, Query("MX", "system")), !.pc = "sys_wait"]

\* get_mx_records: the configured resolver's MX query ends.
MxAnswer(k) ==
    /\ CanResume(k, "mx_wait")
    /\ LET domain == DomainOf(emails[k]) IN
       \E ans \in {TrueMx(domain)} \cup May(TransientDns) :
          LET t == Answered(task[k], ans) IN
          /\ transients' = Count(ans, TransientDns)
          /\ CASE ans = "records" ->
                     /\ mx_cache' = CacheWrite(mx_cache, domain, HostList(MXRecords(domain)))
                     /\ task' = [task EXCEPT ![k] =
                              AfterMx([t EXCEPT !.wrote = @ + 1], MxList(mx_cache'[domain]))]
               [] OTHER ->
                     /\ task' = [task EXCEPT ![k] = MxFailure(t, ans)]
                     /\ UNCHANGED mx_cache
    /\ UNCHANGED <<file, emails, job, saved, progress, jpc, i, catch_all_cache, calls>>

\* get_mx_records: the A query of the fallback ends, found or not.
AAnswer(k) ==
    /\ CanResume(k, "a_wait")
    /\ LET domain == DomainOf(emails[k]) IN
       \E ans \in {TrueA(domain)} \cup May(TransientA) :
          /\ transients' = Count(ans, TransientA)
          /\ mx_cache' = CacheWrite(mx_cache, domain, <<>>)
          /\ task' = [task EXCEPT ![k] =
                AfterMx([Answered(task[k], ans) EXCEPT !.wrote = @ + 1], MxList(<<>>))]
    /\ UNCHANGED <<file, emails, job, saved, progress, jpc, i, catch_all_cache, calls>>

\* get_mx_records: the system resolver's MX query ends.
SysAnswer(k) ==
    /\ CanResume(k, "sys_wait")
    /\ LET domain == DomainOf(emails[k]) IN
       \E ans \in {TrueMx(domain)} \cup May(TransientSysDns) :
          LET t == Answered(task[k], ans) IN
          /\ transients' = Count(ans, TransientSysDns)
          /\ IF ans = "records"
                THEN /\ mx_cache' = CacheWrite(mx_cache, domain, HostList(MXRecords(domain)))
                     /\ task' = [task EXCEPT ![k] =
                           AfterMx([t EXCEPT !.wrote = @ + 1], MxList(mx_cache'[domain]))]
                ELSE /\ task' = [task EXCEPT ![k] = AfterMx(t, MxNone)]
                     /\ mx_cache' = SysFailure(mx_cache, domain)
    /\ UNCHANGED <<file, emails, job, saved, progress, jpc, i, catch_all_cache, calls>>

\* check_smtp returns and verify decides.
SmtpAnswer(k) ==
    /\ CanResume(k, "smtp_wait")
    /\ \E out \in TrueSmtp(task[k].mx_server, emails[k]) \cup May(TransientSmtp) :
          /\ transients' = Count(out, TransientSmtp)
          /\ task' = [task EXCEPT ![k] =
                [task[k] EXCEPT !.out = out,
                                !.smtp_result = check_smtp(out),
                                !.result = FinalDecision(task[k].result, check_smtp(out)),
                                !.pc = "done"]]
    /\ UNCHANGED <<file, emails, job, saved, progress, jpc, i, mx_cache, catch_all_cache, calls>>

\* A step of verify raises an exception that reaches its handler.
Fault(k) ==
    /\ transients < MaxTransient
    /\ transients' = transients + 1
    /\ \/ CanStart(k)
       \/ \E at \in {"mx_wait", "a_wait", "sys_wait", "smtp_wait"} : CanResume(k, at)
    /\ task' = [task EXCEPT ![k] =
          [task[k] EXCEPT !.result = SystemError(task[k].result, "err"),
                          !.raised = TRUE, !.pc = "done"]]
    /\ UNCHANGED <<file, emails, job, saved, progress, jpc, i, mx_cache, catch_all_cache, calls>>

\* ------------------------------------------------------------------------
\* is_catch_all
\* ------------------------------------------------------------------------
\* f"{random_prefix}@{domain}": the random local-part is one that is no
\* mailbox of the domain.
SyntheticAddress(domain) == <<"r", "n", "d", "0", "@">> \o domain

\* is_catch_all runs from its start to its suspension in check_smtp, or
\* returns the cache entry.
IsCatchAllStart(c) ==
    /\ calls[c].pc = "idle"
    /\ IF calls[c].domain \in DOMAIN catch_all_cache
          THEN calls' = [calls EXCEPT ![c] =
                   [calls[c] EXCEPT !.hit = TRUE,
                                    !.ret = catch_all_cache[calls[c].domain],
                                    !.pc = "done"]]
          ELSE calls' = [calls EXCEPT ![c] =
                   [calls[c] EXCEPT !.probe = [to |-> SyntheticAddress(calls[c].domain),
                                               host |-> calls[c].host],
                                    !.pc = "probe_wait"]]
    /\ UNCHANGED <<file, emails, job, saved, progress, jpc, i, task, mx_cache,
                   catch_all_cache, transients>>

\* check_smtp returns to is_catch_all, which writes the cache and returns.
IsCatchAllAnswer(c) ==
    /\ calls[c].pc = "probe_wait"
    /\ \E out \in TrueSmtp(calls[c].host, calls[c].probe.to) \cup May(TransientSmtp) :
          LET is_catch_all == (check_smtp(out).status = "VALID") IN
          /\ transients' = Count(out, TransientSmtp)
          /\ catch_all_cache' = CacheWrite(catch_all_cache, calls[c].domain, is_catch_all)
          /\ calls' = [calls EXCEPT ![c] =
                [calls[c] EXCEPT !.out = out, !.ret = is_catch_all, !.pc = "done"]]
    /\ UNCHANGED <<file, emails, job, saved, progress, jpc, i, task, mx_cache>>

Next ==
    \/ ProcessCsvStart
    \/ ReadCsv
    \/ LaunchWindow
    \/ GatherDone
    \/ ProcessCsvComplete
    \/ \E k \in DOMAIN task : VerifyStart(k)
    \/ \E k \in DOMAIN task : MxAnswer(k)
    \/ \E k \in DOMAIN task : AAnswer(k)
    \/ \E k \in DOMAIN task : SysAnswer(k)
    \/ \E k \in DOMAIN task : SmtpAnswer(k)
    \/ \E k \in DOMAIN task : Fault(k)
    \/ \E c \in DOMAIN calls : IsCatchAllStart(c)
    \/ \E c \in DOMAIN calls : IsCatchAllAnswer(c)

Spec == Init /\ [][Next]_vars

\* ------------------------------------------------------------------------
\* Properties of verify
\* ------------------------------------------------------------------------
\* The calls that have returned, and those that returned from the body of
\* verify (no exception reached the handler).
Returned(k) == task[k].pc = "done"
Normal(k) == Returned(k) /\ ~task[k].raised

\* The addresses of the model, each with what the claims ask of it: whether
\* it passes the syntax regex, its domain in lower case if it does, whether
\* that domain is in the
\* disposable set, whether its local-part is, in lower case, a role prefix,
\* and whether its domain has neither an MX nor an A record.
AllAddresses ==
    Addresses \cup BatchAddresses \cup {ExampleBatch[n] : n \in 1..Len(ExampleBatch)}
        \cup {RetryBatch[n] : n \in 1..Len(RetryBatch)}
AddressTable ==
    [e \in AllAddresses |->
        [syntax     |-> check_syntax(e),
         domain     |-> IF check_syntax(e) THEN DomainOf(e) ELSE <<>>,
         disposable |-> check_syntax(e) /\ Lower(SplitDomain(e)) \in DISPOSABLE_DOMAINS,
         role       |-> Lower(SplitLocal(e)) \in ROLE_PREFIXES,
         dead       |-> /\ check_syntax(e)
                        /\ MXRecords(DomainOf(e)) = {}
                        /\ ~HasA(DomainOf(e))]]
WellFormed(e) == AddressTable[e].syntax
Disposable(e) == AddressTable[e].disposable
RolePrefix(e) == AddressTable[e].role
AtDeadDomain(e) == AddressTable[e].dead
DomainFor(e) == AddressTable[e].domain

\* A result with the three flags false.
Plain(email, status, reason) ==
    [email |-> email, status |-> status, reason |-> reason,
     smtp_valid |-> FALSE, mx_found |-> FALSE, catch_all |-> FALSE]

\* C1: an address that fails the syntax regex is answered INVALID, "Invalid
\* Syntax", with the three flags false; the call issues no DNS query and no
\* SMTP probe, writes no cache and never suspends.
C1_InvalidSyntax ==
    \A k \in DOMAIN task :
        ~WellFormed(emails[k]) =>
            /\ task[k].pc \in {"idle", "new", "done"}
            /\ task[k].dns = <<>> /\ task[k].smtp = <<>> /\ task[k].wrote = 0
            /\ Normal(k) => task[k].result = Plain(emails[k], "INVALID", <<"Invalid Syntax">>)

\* A string with an "@" and a domain part that fails the regex was answered.
C1_Witness ==
    \E k \in DOMAIN task :
        /\ Normal(k) /\ ~WellFormed(emails[k]) /\ SplitHasDomain(emails[k])
        /\ task[k].result.status = "INVALID"

\* C2: a syntactically valid address at a disposable domain (compared in
\* lower case) is answered INVALID, "Disposable Domain", role prefix or not,
\* whatever MX records the domain has; the call issues no DNS query and no
\* SMTP probe.
C2_Disposable ==
    \A k \in DOMAIN task :
        (WellFormed(emails[k]) /\ Disposable(emails[k])) =>
            /\ task[k].pc \in {"idle", "new", "done"}
            /\ task[k].dns = <<>> /\ task[k].smtp = <<>> /\ task[k].wrote = 0
            /\ Normal(k) =>
                 task[k].result = Plain(emails[k], "INVALID", <<"Disposable Domain">>)

\* A role address at a disposable domain that is written in upper case and
\* has MX records was answered.
C2_Witness ==
    \E k \in DOMAIN task :
        /\ Normal(k) /\ WellFormed(emails[k]) /\ Disposable(emails[k])
        /\ RolePrefix(emails[k])
        /\ SplitDomain(emails[k]) # Lower(SplitDomain(emails[k]))
        /\ MXRecords(Lower(SplitDomain(emails[k]))) # {}
        /\ task[k].result.reason = <<"Disposable Domain">>

\* The MX question of the call was answered: no MX query of it timed out or
\* is still pending.
MxAnswered(k) ==
    \A n \in DOMAIN task[k].dns :
        task[k].dns[n].q = "MX" => task[k].dns[n].ans \notin {"Timeout", "pending"}

ProbeBlocked(k) ==
    /\ Normal(k)
    /\ task[k].smtp = <<[to |-> emails[k], host |-> task[k].mx_server]>>
    /\ task[k].smtp_result.status = "RISKY"

\* C4: role prefix, non-empty MX list, blocked probe: RISKY, "Role-Based
\* Account", smtp_valid false (and mx_found true); never VALID.
C4_RoleBlocked ==
    \A k \in DOMAIN task :
        (ProbeBlocked(k) /\ RolePrefix(emails[k])) =>
            task[k].result =
                [email |-> emails[k], status |-> "RISKY",
                 reason |-> <<"Role-Based Account">>,
                 smtp_valid |-> FALSE, mx_found |-> TRUE, catch_all |-> FALSE]

\* A role address whose probe was blocked was answered.
C4_Witness ==
    \E k \in DOMAIN task :
        /\ ProbeBlocked(k) /\ RolePrefix(emails[k])
        /\ task[k].result.status = "RISKY"

\* C5: no role prefix, non-empty MX list, blocked probe: VALID, "Domain Valid
\* (SMTP Blocked)", smtp_valid true, mx_found true.
C5_PlainBlocked ==
    \A k \in DOMAIN task :
        (ProbeBlocked(k) /\ ~RolePrefix(emails[k])) =>
            task[k].result =
                [email |-> emails[k], status |-> "VALID",
                 reason |-> <<"Domain Valid (SMTP Blocked)">>,
                 smtp_valid |-> TRUE, mx_found |-> TRUE, catch_all |-> FALSE]

\* An address without role prefix whose probe was blocked was answered.
C5_Witness ==
    \E k \in DOMAIN task :
        /\ ProbeBlocked(k) /\ ~RolePrefix(emails[k])
        /\ task[k].result.status = "VALID"

\* The call got to a non-empty MX list whose first host accepts RCPT TO for
\* every local-part.
AtCatchAllHost(k) ==
    /\ Normal(k) /\ WellFormed(emails[k]) /\ ~Disposable(emails[k])
    /\ task[k].mx_server # <<>>
    /\ ServerKind(task[k].mx_server) = "catchall"

\* C6: a syntactically valid, non-disposable address whose first MX host is
\* a catch-all server is answered CATCH_ALL, "Domain is Catch-All", with
\* catch_all true, and the literal address is not probed.
C6_CatchAll ==
    \A k \in DOMAIN task :
        AtCatchAllHost(k) =>
            /\ task[k].result.status = "CATCH_ALL"
            /\ task[k].result.reason = <<"Domain is Catch-All">>
            /\ task[k].result.catch_all
            /\ \A n \in DOMAIN task[k].smtp : task[k].smtp[n].to # emails[k]

\* The statuses of the rows saved so far.
SavedStatuses == [n \in 1..Len(saved) |-> saved[n].status]

\* C7: the batch over x@<disposable>, admin@<port 25 refused>,
\* y@<catch-all>, <no address>, with nothing failing on the way, saves the
\* statuses INVALID, RISKY, CATCH_ALL, INVALID in that order.
C7_ExampleBatch ==
    (emails = ExampleBatch /\ job.status = "COMPLETED" /\ transients = 0) =>
        SavedStatuses = <<"INVALID", "RISKY", "CATCH_ALL", "INVALID">>

\* The MX queries a call issued, to either resolver.
MxQueries(k) == Cardinality({n \in DOMAIN task[k].dns : task[k].dns[n].q = "MX"})

\* The window of process_csv an index belongs to.
WindowOf(k) == (k - 1) \div BATCH_SIZE

\* Call j started after call k had returned; both are for addresses of one
\* domain, which the caches did not hold when k started (k queried DNS).
SecondCall(k, j) ==
    /\ WindowOf(k) < WindowOf(j)
    /\ Normal(k) /\ Returned(j)
    /\ WellFormed(emails[k]) /\ WellFormed(emails[j])
    /\ ~Disposable(emails[k])
    /\ DomainFor(emails[k]) = DomainFor(emails[j])
    /\ Len(task[k].dns) >= 1

\* The answers of the configured resolver that get_mx_records settles
\* without a second MX query.
Determinate == {"records", "NoAnswer", "NXDOMAIN", "NoNameservers"}

C9_Progress ==
    LET N == Len(emails) IN
    /\ \A n \in DOMAIN progress :
          /\ progress[n] = IF n * BATCH_SIZE < N THEN n * BATCH_SIZE ELSE N
          /\ n > 1 => progress[n - 1] <= progress[n]
    /\ job.processed_emails = IF progress = <<>> THEN 0 ELSE progress[Len(progress)]
    /\ job.status = "COMPLETED" =>
          /\ Len(progress) = (N + BATCH_SIZE - 1) \div BATCH_SIZE
          /\ job.processed_emails = N

\* A job over a list that is not a whole number of windows completed after
\* more than one report.
C9_Witness ==
    /\ job.status = "COMPLETED"
    /\ Len(progress) >= 2
    /\ Len(emails) % BATCH_SIZE # 0
    /\ job.processed_emails = Len(emails)

\* C10: a call in which a step raised returns UNKNOWN with a reason that
\* starts with "System Error: " and with smtp_valid, mx_found and catch_all
\* false, also when mx_found had been set before.
C10_SystemError ==
    \A k \in DOMAIN task :
        task[k].raised =>
            /\ Returned(k)
            /\ task[k].result.email = emails[k]
            /\ task[k].result.status = "UNKNOWN"
            /\ task[k].result.reason[1] = "System Error: "
            /\ ~task[k].result.smtp_valid
            /\ ~task[k].result.mx_found
            /\ ~task[k].result.catch_all

\* A call raised after it had set mx_found and started its probe.
C10_Witness ==
    \E k \in DOMAIN task :
        /\ task[k].raised /\ Returned(k)
        /\ task[k].mx_server # <<>> /\ task[k].smtp # <<>>
        /\ task[k].result.status = "UNKNOWN"

\* ------------------------------------------------------------------------
\* Invariants of the results
\* ------------------------------------------------------------------------
\* The reasons of the results that stop before a host is selected.
EarlyReasons ==
    { <<"Invalid Syntax">>, <<"Invalid Format">>, <<"Disposable Domain">>,
      <<"DNS Lookup Failed">>, <<"No MX Records">> }

\* C11: a returned result with mx_found true comes from a call that did not
\* raise, for a well-formed address at a non-disposable domain, in which
\* get_mx_records returned a non-empty list (its first host was selected),
\* from the cache (no query) or from a resolver's answer with records; the
\* results that stop at syntax, disposable, DNS failure, empty list or
\* system error have mx_found false.
C11_MxFound ==
    \A k \in DOMAIN task :
        Returned(k) =>
            /\ task[k].result.mx_found =>
                  /\ Normal(k)
                  /\ WellFormed(emails[k]) /\ ~Disposable(emails[k])
                  /\ task[k].mx_server # <<>>
                  /\ \/ task[k].dns = <<>>
                     \/ /\ task[k].dns[Len(task[k].dns)] \in
                              {[q |-> "MX", by |-> b, ans |-> "records"] :
                                  b \in {"configured", "system"}}
                        /\ MXRecords(DomainFor(emails[k])) # {}
            /\ (\/ task[k].result.reason \in EarlyReasons
                \/ task[k].result.reason[1] = "System Error: ") =>
                  ~task[k].result.mx_found

\* One call returned with mx_found true after a cache hit, another returned
\* "No MX Records" after the A fallback.
C11_Witness ==
    /\ \E k \in DOMAIN task :
          /\ Normal(k) /\ task[k].result.mx_found /\ task[k].dns = <<>>
    /\ \E j \in DOMAIN task :
          /\ Normal(j) /\ task[j].result.reason = <<"No MX Records">>
          /\ task[j].dns # <<>> /\ ~task[j].result.mx_found

WroteBy(k) ==
    Cardinality({n \in DOMAIN task[k].dns :
        \/ task[k].dns[n].q = "MX" /\ task[k].dns[n].ans = "records"
        \/ task[k].dns[n].q = "A" /\ task[k].dns[n].ans # "pending"})

\* get_mx_records returned None to the call.
Indeterminate(k) ==
    Normal(k) /\ task[k].result.reason = <<"DNS Lookup Failed">>

\* No call for the domain of address k had a determinate outcome.
NeverDetermined(k) ==
    \A m \in DOMAIN task :
        \/ task[m].wrote = 0
        \/ ~WellFormed(emails[m])
        \/ DomainFor(emails[m]) # DomainFor(emails[k])

\* C13: a call writes the MX cache once per determinate outcome and not
\* otherwise; a call that got None wrote nothing and both its MX queries
\* failed; every cache entry was written by a call for that domain with a
\* determinate outcome; and while no call for a domain had one, the domain
\* has no entry and every call for it that has started queried DNS.
C13_CacheOnlyDeterminate ==
    /\ \A k \in DOMAIN task :
          /\ task[k].wrote = WroteBy(k)
          /\ Indeterminate(k) =>
                /\ task[k].wrote = 0
                /\ Len(task[k].dns) = 2
                /\ task[k].dns[1].q = "MX" /\ task[k].dns[1].ans \notin Determinate
                /\ task[k].dns[2].q = "MX" /\ task[k].dns[2].ans # "records"
          /\ (NeverDetermined(k) /\ WellFormed(emails[k]) /\ ~Disposable(emails[k])) =>
                /\ DomainFor(emails[k]) \notin DOMAIN mx_cache
                /\ (task[k].pc \notin {"idle", "new"} /\ ~task[k].raised) =>
                      task[k].dns # <<>>
    /\ \A d \in DOMAIN mx_cache :
          \E k \in DOMAIN task :
              WellFormed(emails[k]) /\ DomainFor(emails[k]) = d /\ task[k].wrote >= 1

\* After a call for a domain got None, a call of a later window for the
\* same domain queried DNS again.
C13_Witness ==
    \E k \in DOMAIN task : \E j \in DOMAIN task :
        /\ WindowOf(k) < WindowOf(j)
        /\ Indeterminate(k)
        /\ DomainFor(emails[k]) = DomainFor(emails[j])
        /\ task[j].dns # <<>> /\ task[j].dns[1].q = "MX"

\* The rows saved so far are the results of the first calls, one per
\* address and in the order of the list, and the job of a readable list has
\* not failed; at the end of process_csv every address has its row.
SavedInOrder ==
    file.kind = "ok" =>
        /\ job.status # "FAILED"
        /\ Len(saved) <= Len(emails)
        /\ \A n \in DOMAIN saved :
              /\ Returned(n)
              /\ saved[n] = task[n].result
              /\ saved[n].email = emails[n]
        /\ jpc = "end" => (job.status = "COMPLETED" /\ Len(saved) = Len(file.emails))

\* While gather waits, a call of the window can start or resume, or all of
\* them have returned and gather returns.
GatherGoesOn ==
    jpc = "gather" =>
        \/ \E k \in DOMAIN task : CanStart(k)
        \/ \E k \in DOMAIN task :
              \E at \in {"mx_wait", "a_wait", "sys_wait", "smtp_wait"} : CanResume(k, at)
        \/ \A k \in DOMAIN task : WindowOf(k) = i \div BATCH_SIZE => Returned(k)

\* C14: for a readable list, whatever each verification returns (a call
\* that raised included), save_email_result is called once per address in
\* input order, the job never fails, gather is never stuck, and at the end
\* of process_csv the job is COMPLETED with one row per address.
C14_OnceEachInOrder ==
    /\ SavedInOrder
    /\ jpc \in {"none", "queued", "reading", "loop", "gather", "end"}
    /\ GatherGoesOn

\* A job completed with a row for each of several addresses, one of them
\* the System Error row of a call that raised.
C14_Witness ==
    /\ job.status = "COMPLETED"
    /\ Len(saved) >= 2 /\ Len(saved) = Len(emails)
    /\ \E n \in DOMAIN saved :
          /\ task[n].raised
          /\ saved[n].reason[1] = "System Error: "

\* ------------------------------------------------------------------------
\* Properties of the windows of process_csv
\* ------------------------------------------------------------------------
\* The calls that were created and have not returned.
InFlight == {k \in DOMAIN task : task[k].pc \notin {"idle", "done"}}

\* C15: the calls in flight all belong to the window of the loop variable,
\* while gather waits; the calls of the earlier windows have returned and
\* their results were saved; the calls of the later windows were not
\* created; so at most BATCH_SIZE calls are in flight.
C15_OneWindowInFlight ==
    /\ \A k \in InFlight :
          /\ jpc = "gather"
          /\ WindowOf(k) = i \div BATCH_SIZE
          /\ Len(saved) = i
    /\ \A k \in DOMAIN task :
          /\ WindowOf(k) < i \div BATCH_SIZE => (Returned(k) /\ k <= Len(saved))
          /\ WindowOf(k) > i \div BATCH_SIZE => task[k].pc = "idle"
    /\ Cardinality(InFlight) <= BATCH_SIZE

\* A full first window was saved and a call of the second window is
\* suspended.
C15_Witness ==
    /\ i = BATCH_SIZE /\ Len(saved) = BATCH_SIZE
    /\ \E k \in InFlight :
          /\ WindowOf(k) = 1
          /\ task[k].pc \in {"mx_wait", "smtp_wait"}

\* ------------------------------------------------------------------------
\* Properties of check_smtp
\* ------------------------------------------------------------------------
\* The SMTP session of the call's probe ended and check_smtp returned.
Probed(k) == Normal(k) /\ task[k].out.kind # "none"

\* C16: check_smtp answers a reply code 250 with VALID "SMTP Response 250
\* OK", a code 550 with INVALID "User Not Found (550)" and any other code
\* with UNKNOWN, whether the code was returned by rcpt or carried by an SMTP
\* response exception; a refused or timed-out connection with RISKY "SMTP
\* Connection Blocked"; any other exception with UNKNOWN and its text.
C16_Classification ==
    \A k \in DOMAIN task :
        Probed(k) =>
            LET out == task[k].out
                res == task[k].smtp_result
            IN  CASE out.kind \in {"reply", "response_exc"} ->
                       IF out.code = "250"
                           THEN res = [status |-> "VALID",
                                       reason |-> <<"SMTP Response 250 OK">>]
                       ELSE IF out.code = "550"
                           THEN res = [status |-> "INVALID",
                                       reason |-> <<"User Not Found (550)">>]
                       ELSE res.status = "UNKNOWN"
                  [] out.kind = "blocked" ->
                       res = [status |-> "RISKY", reason |-> <<"SMTP Connection Blocked">>]
                  [] OTHER ->
                       res.status = "UNKNOWN" /\ res.reason[1] = "SMTP Exception: "

\* C17: after check_smtp returned, the connection its session opened is
\* closed, on every exit path.
C17_ConnectionClosed ==
    \A k \in DOMAIN task :
        Probed(k) => "open" \notin ConnAfter(task[k].out)

\* The exchanger with the lowest preference value among the MX records of a
\* domain, without the dot that ends it.
BestRanked(d) ==
    LET r == CHOOSE x \in MXRecords(d) : \A y \in MXRecords(d) : x.pref <= y.pref
    IN  RStripDot(r.exchange)

\* C18: the first host of a cached list, and the host verify selects, is
\* the exchanger with the lowest preference value of the domain.
C18_PreferenceOrder ==
    /\ \A d \in DOMAIN mx_cache :
          mx_cache[d] # <<>> => mx_cache[d][1] = BestRanked(d)
    /\ \A k \in DOMAIN task :
          task[k].mx_server # <<>> =>
              task[k].mx_server = BestRanked(DomainFor(emails[k]))

\* ------------------------------------------------------------------------
\* Properties of the caches
\* ------------------------------------------------------------------------
\* Every entry of the cache before the step is an entry of the cache after
\* it, with the same value.
Kept(before, after) ==
    \A d \in DOMAIN before : d \in DOMAIN after /\ after[d] = before[d]

\* C19: no step removes an entry of the MX cache or of the catch-all cache
\* or replaces its value with a different one.
C19_EntriesPermanent ==
    [][Kept(mx_cache, mx_cache') /\ Kept(catch_all_cache, catch_all_cache')]_vars

\* The number of calls of is_catch_all for the domain that issued a probe.
ProbesFor(d) ==
    Cardinality({c \in DOMAIN calls : calls[c].domain = d /\ calls[c].probe # <<>>})

\* C20: for every domain at most one synthetic probe is issued in the
\* session, and all the calls of is_catch_all for the domain that have
\* returned have returned the same boolean.
C20_OneProbePerDomain ==
    \A c \in DOMAIN calls :
        /\ ProbesFor(calls[c].domain) <= 1
        /\ \A e \in DOMAIN calls :
              (/\ calls[e].domain = calls[c].domain
               /\ calls[c].pc = "done" /\ calls[e].pc = "done") =>
                  calls[e].ret = calls[c].ret

\* ------------------------------------------------------------------------
\* Properties of the resolution of the MX records
\* ------------------------------------------------------------------------
\* get_mx_records returned None to the call: the last query of its log is
\* the system resolver's, and it ended without records.
GotNone(k) ==
    /\ Normal(k)
    /\ task[k].dns # <<>>
    /\ task[k].dns[Len(task[k].dns)].by = "system"
    /\ task[k].dns[Len(task[k].dns)].ans \notin {"pending", "records"}

RetrySucceeded(k) ==
    /\ Len(task[k].dns) = 2
    /\ task[k].dns[2].by = "system"
    /\ task[k].dns[2].ans = "records"

\* C22: a call that queries DNS first asks the configured resolver for the
\* MX records.  When that query fails otherwise than with no answer, no such
\* domain or no nameservers, the call asks a system resolver for the MX
\* records, once, and issues no A query; when the retry brings records the
\* call writes their host list to the cache and goes on with its first
\* host; None is returned only after the retry failed too.  The A query is
\* issued only after no answer, no such domain or no nameservers, and it is
\* the last query of the call.
C22_RetryOnce ==
    \A k \in DOMAIN task :
        LET dns == task[k].dns IN
        /\ Len(dns) <= 2
        /\ dns # <<>> => dns[1] \in {Query("MX", "configured")} \cup
                            {[Query("MX", "configured") EXCEPT !.ans = a] :
                                 a \in Determinate \cup TransientDns}
        /\ Len(dns) = 2 =>
              IF dns[1].ans \in {"NoAnswer", "NXDOMAIN", "NoNameservers"}
                  THEN dns[2].q = "A" /\ dns[2].by = "configured"
                  ELSE /\ dns[1].ans \notin {"pending", "records"}
                       /\ dns[2].q = "MX" /\ dns[2].by = "system"
        /\ (/\ dns # <<>>
            /\ dns[1].ans \notin Determinate \cup {"pending"}
            /\ ~task[k].raised) => Len(dns) = 2
        /\ (RetrySucceeded(k) /\ ~task[k].raised) =>
              /\ task[k].wrote = 1
              /\ DomainFor(emails[k]) \in DOMAIN mx_cache
              /\ task[k].result.mx_found
              /\ task[k].mx_server = HostList(MXRecords(DomainFor(emails[k])))[1]
        /\ Indeterminate(k) => GotNone(k)

\* A call whose first MX query timed out got the records from the system
\* resolver and went on to its probe.
C22_Witness ==
    \E k \in DOMAIN task :
        /\ Normal(k) /\ RetrySucceeded(k)
        /\ task[k].dns[1].ans = "Timeout"
        /\ task[k].smtp # <<>>

\* ------------------------------------------------------------------------
\* Properties of the final decision
\* ------------------------------------------------------------------------
\* The verdict of the role-based check.
RoleVerdict(result) ==
    result.status = "RISKY" /\ result.reason = <<"Role-Based Account">>

Coherent(result) ==
    /\ result.status \in {"VALID", "INVALID", "RISKY", "CATCH_ALL", "UNKNOWN"}
    /\ result.smtp_valid => (result.status = "VALID" /\ result.mx_found)
    /\ result.status \in {"INVALID", "RISKY", "CATCH_ALL", "UNKNOWN"} =>
          ~result.smtp_valid

\* C24: in every result verify has returned, and so in every row saved,
\* smtp_valid true implies status VALID and mx_found true, and a status
\* INVALID, RISKY, CATCH_ALL or UNKNOWN comes with smtp_valid false.
C24_FlagsCoherent ==
    /\ \A k \in DOMAIN task : Returned(k) => Coherent(task[k].result)
    /\ \A n \in DOMAIN saved : Coherent(saved[n])

\* Rows are saved with smtp_valid true, and rows of a status other than
\* VALID.
C24_Witness ==
    /\ \E n \in DOMAIN saved : saved[n].smtp_valid
    /\ \E n \in DOMAIN saved : saved[n].status # "VALID"

\* ------------------------------------------------------------------------
\* Properties of the job
\* ------------------------------------------------------------------------
\* The ways the status of a job can have moved so far.
StatusPaths ==
    { <<"PENDING">>, <<"PENDING", "PROCESSING">>,
      <<"PENDING", "PROCESSING", "COMPLETED">>,
      <<"PENDING", "PROCESSING", "FAILED">> }

\* C25: the status of a job moves PENDING, PROCESSING, then COMPLETED or
\* FAILED, and is PROCESSING only while process_csv runs; gather always
\* returns and process_csv ends with the job COMPLETED or FAILED; the recorded
\* processed count is the number of rows saved and is at most the recorded
\* total; a COMPLETED job has processed = total = number of rows saved; a
\* job fails only for a file without email column or one that cannot be
\* read, and then has no row saved and the processed count 0.
C25_JobLifecycle ==
    /\ job.log \in StatusPaths
    /\ job.status = job.log[Len(job.log)]
    /\ job.status = "PENDING" <=> jpc \in {"queued", "none"}
    /\ job.status = "PROCESSING" <=> jpc \in {"reading", "loop", "gather"}
    /\ job.status \in {"COMPLETED", "FAILED"} <=> jpc = "end"
    /\ GatherGoesOn
    /\ job.processed_emails = Len(saved)
    /\ job.processed_emails <= job.total_emails
    /\ \A n \in DOMAIN progress :
          progress[n] <= job.total_emails /\ progress[n] <= Len(saved)
    /\ job.status = "COMPLETED" =>
          /\ job.processed_emails = job.total_emails
          /\ job.total_emails = Len(saved)
          /\ Len(saved) = Len(file.emails)
    /\ job.status = "FAILED" =>
          /\ file.kind \in {"nocolumn", "unreadable", "undecodable"}
          /\ saved = <<>>
          /\ job.processed_emails = 0

\* A job over a file that cannot be read has failed after it was set to
\* PROCESSING.
C25_Witness ==
    /\ jpc = "end"
    /\ file.kind \in {"unreadable", "undecodable"}
    /\ job.log = <<"PENDING", "PROCESSING", "FAILED">>

====
